---- MODULE Spec2Model ----
(***************************************************************************)
(* PassAudit: breach index (dictionary_loader.py, checker.py), entropy     *)
(* model (crypto.py), analysis (analyzer.py) and generator (generator.py). *)
(*                                                                         *)
(* A string is a sequence of one-character strings.  Floats are fixed      *)
(* point numbers with FracBits fractional bits.                            *)
(***************************************************************************)
EXTENDS Integers, Sequences, FiniteSets, TLC

VARIABLES
    pc,                      \* "start" before the dictionaries are loaded, then "ready"
    sources,                 \* the dictionary files named by file_paths
    common_password_hashes,  \* PasswordChecker.common_password_hashes
    check_count,             \* PasswordChecker._check_count
    lookup,                  \* the last is_common_password call and its answer
    analysis_count,          \* PasswordAnalyzer._analysis_count
    call,                    \* the password in hand and what zxcvbn returns for it
    result,                  \* the dict returned by the last analyze call
    p, q,                    \* two candidates handed to calculate_entropy
    est,                     \* their entropy estimates
    eff_words,               \* PasswordGenerator.eff_words
    wordlist_source,         \* where _load_eff_wordlist took them from
    gen,                     \* the last generator call and its outcome
    passwords,               \* the passwords read from the input file of batch
    zxcvbn_of,               \* what zxcvbn returns for each of them
    results,                 \* the results list of batch
    report,                  \* what export_batch wrote
    panel,                   \* what show_batch_summary printed
    threads                  \* the callers of analyze on shared objects

analysisVars == <<pc, sources, common_password_hashes, check_count, lookup,
                  analysis_count, call, result>>
entropyVars == <<p, q, est>>
genVars == <<eff_words, wordlist_source, gen>>
batchVars == <<passwords, zxcvbn_of, results, report, panel>>
threadVars == <<threads>>
vars == <<analysisVars, entropyVars, genVars, batchVars, threadVars>>

(***************************************************************************)
(* Characters and Python's str predicates on them.                         *)
(***************************************************************************)
\* "^A" is the control character U+0001, "\xff" a byte that is not UTF-8.
CTRL == "^A"
BADBYTE == "xff"
EACUTE == "e'"

ascii_lowercase == {"a", "b"}
ascii_uppercase == {"A"}
ascii_letters == ascii_lowercase \cup ascii_uppercase
digits == {"1"}
punctuation == {"!", "#"}
whitespace == {" "}

islower(c) == c \in ascii_lowercase \cup {EACUTE}
isupper(c) == c \in ascii_uppercase
isdigit(c) == c \in digits
isspace(c) == c \in whitespace
isalnum(c) == islower(c) \/ isupper(c) \/ isdigit(c)
is_extended(c) == c = EACUTE

AnyChar(s, Test(_)) == \E i \in 1..Len(s) : Test(s[i])

RECURSIVE Repeat(_, _)
Repeat(s, n) == IF n <= 0 THEN <<>> ELSE s \o Repeat(s, n - 1)

Range(s) == {s[i] : i \in 1..Len(s)}

RECURSIVE Pow(_, _)
Pow(b, n) == IF n <= 0 THEN 1 ELSE b * Pow(b, n - 1)

Max(a, b) == IF a >= b THEN a ELSE b

(***************************************************************************)
(* Fixed point arithmetic for Python floats.                               *)
(***************************************************************************)
FracBits == 10
WorkBits == 14
Scale == Pow(2, FracBits)

RECURSIVE FloorLog2(_)
FloorLog2(n) == IF n < 2 THEN 0 ELSE 1 + FloorLog2(n \div 2)

\* The fractional bits of log2 by repeated squaring of the mantissa x,
\* 1 <= x / 2^WorkBits < 2; acc collects the bits found so far.
RECURSIVE Log2Bits(_, _, _)
Log2Bits(x, acc, k) ==
    IF k = 0 THEN acc
    ELSE LET sq == (x * x) \div Pow(2, WorkBits)
         IN  IF sq >= Pow(2, WorkBits + 1)
             THEN Log2Bits(sq \div 2, 2 * acc + 1, k - 1)
             ELSE Log2Bits(sq, 2 * acc, k - 1)

\* math.log2(n) for an integer n >= 1, in units of 1/Scale.
log2(n) == LET ip == FloorLog2(n)
           IN  Log2Bits(n * Pow(2, WorkBits - ip), ip, FracBits)

\* math.ceil(a / b) for b > 0.
ceil_div(a, b) == IF a <= 0 THEN -((-a) \div b) ELSE (a + b - 1) \div b

(***************************************************************************)
(* utils/crypto.py                                                         *)
(***************************************************************************)
\* str.encode('utf-8'): the bytes of each character.
utf8(c) ==
    CASE c = "a" -> <<97>>  [] c = "b" -> <<98>>  [] c = "A" -> <<65>>
      [] c = "1" -> <<49>>  [] c = "!" -> <<33>>  [] c = "#" -> <<35>>
      [] c = " " -> <<32>>  [] c = CTRL -> <<1>>  [] c = EACUTE -> <<195, 169>>

RECURSIVE encode(_)
encode(s) == IF s = <<>> THEN <<>> ELSE utf8(Head(s)) \o encode(Tail(s))

\* The digest function: hashlib.sha256 is modelled by a polynomial hash of
\* the bytes, of DigestModulus values, which keeps short inputs apart.
DigestModulus == 65521
DigestBase == 257

RECURSIVE sha256(_, _)
sha256(bytes, h) ==
    IF bytes = <<>> THEN h
    ELSE sha256(Tail(bytes), (h * DigestBase + Head(bytes) + 1) % DigestModulus)

HexDigits == <<"0", "1", "2", "3", "4", "5", "6", "7",
               "8", "9", "a", "b", "c", "d", "e", "f">>
HexWidth == 4

\* hexdigest(): HexWidth hexadecimal digits, most significant first.
RECURSIVE hexdigest(_, _)
hexdigest(v, width) ==
    IF width = 0 THEN <<>>
    ELSE Append(hexdigest(v \div 16, width - 1), HexDigits[(v % 16) + 1])

hash_password(password) == hexdigest(sha256(encode(password), 7), HexWidth)

LOWER_SIZE == 26
UPPER_SIZE == 26
DIGIT_SIZE == 10
PUNCTUATION_SIZE == 32
SPACE_SIZE == 1
EXTENDED_SIZE == 100

has_special_punct(c) == c \in punctuation

charset_size(password) ==
      (IF AnyChar(password, islower) THEN LOWER_SIZE ELSE 0)
    + (IF AnyChar(password, isupper) THEN UPPER_SIZE ELSE 0)
    + (IF AnyChar(password, isdigit) THEN DIGIT_SIZE ELSE 0)
    + (IF AnyChar(password, has_special_punct) THEN PUNCTUATION_SIZE ELSE 0)
    + (IF AnyChar(password, isspace) THEN SPACE_SIZE ELSE 0)
    + (IF AnyChar(password, is_extended) THEN EXTENDED_SIZE ELSE 0)

\* A faulty variant: the length is taken over the distinct characters.
calculate_entropy_distinct(password) ==
    IF password = <<>> \/ charset_size(password) = 0 THEN 0
    ELSE Cardinality(Range(password)) * log2(charset_size(password))

calculate_entropy(password) ==
    IF password = <<>> THEN 0
    ELSE IF charset_size(password) = 0 THEN 0
    ELSE Len(password) * log2(charset_size(password))

\* The character classes calculate_entropy finds present.
classes(password) ==
    {k \in {"lower", "upper", "digit", "special", "space", "extended"} :
        \/ k = "lower" /\ AnyChar(password, islower)
        \/ k = "upper" /\ AnyChar(password, isupper)
        \/ k = "digit" /\ AnyChar(password, isdigit)
        \/ k = "special" /\ AnyChar(password, has_special_punct)
        \/ k = "space" /\ AnyChar(password, isspace)
        \/ k = "extended" /\ AnyChar(password, is_extended)}

(***************************************************************************)
(* utils/dictionary_loader.py and core/checker.py                          *)
(***************************************************************************)
\* open(..., errors='ignore'): bytes that are not UTF-8 are dropped.
decode(raw) == SelectSeq(raw, LAMBDA b : b # BADBYTE)

RECURSIVE lstrip(_)
lstrip(s) == IF s # <<>> /\ isspace(Head(s)) THEN lstrip(Tail(s)) ELSE s

RECURSIVE rstrip(_)
rstrip(s) ==
    IF s # <<>> /\ isspace(s[Len(s)]) THEN rstrip(SubSeq(s, 1, Len(s) - 1))
    ELSE s

strip(s) == rstrip(lstrip(s))

startswith_hash(s) == s # <<>> /\ Head(s) = "#"

\* The test of one line: non-empty and not a comment.
line_retained(pwd) == pwd # <<>> /\ ~startswith_hash(pwd)

\* The digests one file adds: of its trimmed lines that are retained.
file_hashes(lines) ==
    {hash_password(strip(decode(lines[i]))) :
        i \in {j \in 1..Len(lines) : line_retained(strip(decode(lines[j])))}}

\* A faulty variant: the first file that is not available ends the loop.
RECURSIVE load_password_dictionaries_break(_)
load_password_dictionaries_break(file_paths) ==
    IF file_paths = <<>> THEN {}
    ELSE LET f == Head(file_paths)
         IN  IF f.status = "ok"
             THEN file_hashes(f.lines)
                      \cup load_password_dictionaries_break(Tail(file_paths))
             ELSE {}

\* A file that does not exist is skipped by the exists() test, one that
\* cannot be opened by the except clause.
RECURSIVE load_password_dictionaries(_)
load_password_dictionaries(file_paths) ==
    IF file_paths = <<>> THEN {}
    ELSE LET f == Head(file_paths)
         IN  (IF f.status = "ok" THEN file_hashes(f.lines) ELSE {})
                 \cup load_password_dictionaries(Tail(file_paths))

\* A faulty variant: the membership test on the password itself.
is_common_password_unhashed(password, hashes) == password \in hashes

\* PasswordChecker.is_common_password, without its counter.
is_common_password(password, hashes) == hash_password(password) \in hashes

\* A faulty variant: the checker adds the digest of what it looked up.
index_after_check_learning(password, hashes) ==
    hashes \cup {hash_password(password)}

\* self.common_password_hashes after is_common_password: the method reads
\* the set and does not write it.
index_after_check(password, hashes) == hashes

(***************************************************************************)
(* core/analyzer.py                                                        *)
(***************************************************************************)
\* The messages of _generate_feedback (the breach warning without its sign).
BREACH_WARNING == "This password has been exposed in data breaches"
LENGTH_12 == "Use at least 12 characters for better security"
LENGTH_16 == "Consider using 16+ characters for optimal security"
LOW_ENTROPY == "Password has low entropy - add more character variety"

MIN_LENGTH == 12
GOOD_LENGTH == 16
LOW_ENTROPY_BITS == 40

RECURSIVE join(_, _)
join(sep, items) ==
    IF items = <<>> THEN ""
    ELSE IF Len(items) = 1 THEN items[1]
    ELSE items[1] \o sep \o join(sep, Tail(items))

not_isalnum(c) == ~isalnum(c)

missing_types(password) ==
       (IF ~AnyChar(password, islower) THEN <<"lowercase letters">> ELSE <<>>)
    \o (IF ~AnyChar(password, isupper) THEN <<"uppercase letters">> ELSE <<>>)
    \o (IF ~AnyChar(password, isdigit) THEN <<"numbers">> ELSE <<>>)
    \o (IF ~AnyChar(password, not_isalnum) THEN <<"special characters">> ELSE <<>>)

missing_message(types) == "Add " \o join(", ", types) \o " for better security"

\* A faulty variant: the length recommendation ahead of the oracle's items.
generate_feedback_length_first(password, zxcvbn_result, is_common, entropy) ==
       (IF is_common THEN <<BREACH_WARNING>> ELSE <<>>)
    \o (IF Len(password) < MIN_LENGTH THEN <<LENGTH_12>>
        ELSE IF Len(password) < GOOD_LENGTH THEN <<LENGTH_16>> ELSE <<>>)
    \o (IF zxcvbn_result.warning # "" THEN <<zxcvbn_result.warning>> ELSE <<>>)
    \o zxcvbn_result.suggestions
    \o (IF entropy < LOW_ENTROPY_BITS * Scale THEN <<LOW_ENTROPY>> ELSE <<>>)
    \o (IF missing_types(password) # <<>>
        THEN <<missing_message(missing_types(password))>> ELSE <<>>)

generate_feedback(password, zxcvbn_result, is_common, entropy) ==
       (IF is_common THEN <<BREACH_WARNING>> ELSE <<>>)
    \o (IF zxcvbn_result.warning # "" THEN <<zxcvbn_result.warning>> ELSE <<>>)
    \o zxcvbn_result.suggestions
    \o (IF Len(password) < MIN_LENGTH THEN <<LENGTH_12>>
        ELSE IF Len(password) < GOOD_LENGTH THEN <<LENGTH_16>> ELSE <<>>)
    \o (IF entropy < LOW_ENTROPY_BITS * Scale THEN <<LOW_ENTROPY>> ELSE <<>>)
    \o (IF missing_types(password) # <<>>
        THEN <<missing_message(missing_types(password))>> ELSE <<>>)

\* crypto.calculate_password_strength_score: defined, and called by nothing.
calculate_password_strength_score(entropy, is_common) ==
    IF is_common THEN 0
    ELSE IF entropy < 28 * Scale THEN 0
    ELSE IF entropy < 36 * Scale THEN 1
    ELSE IF entropy < 60 * Scale THEN 2
    ELSE IF entropy < 128 * Scale THEN 3
    ELSE 4

\* A faulty variant: the score derived from the entropy and the breach flag.
result_score_entropy(zxcvbn_result, is_common, entropy) ==
    calculate_password_strength_score(entropy, is_common)

\* The 'score' entry of the dict analyze returns.
result_score(zxcvbn_result, is_common, entropy) == zxcvbn_result.score

\* dict.get(key, default) on a record.
get(d, key, default) == IF key \in DOMAIN d THEN d[key] ELSE default

\* PasswordAnalyzer._extract_pattern_info: pattern and token of every match
\* of the oracle's sequence, with the dictionary name or the year.
extract_pattern_info(zxcvbn_result) ==
    IF "sequence" \notin DOMAIN zxcvbn_result THEN <<>>
    ELSE [k \in 1..Len(zxcvbn_result.sequence) |->
            LET match == zxcvbn_result.sequence[k]
                pattern_info == [pattern |-> get(match, "pattern", "unknown"),
                                 token |-> get(match, "token", <<>>)]
            IN  IF get(match, "pattern", "") = "dictionary"
                THEN pattern_info
                         @@ [dictionary_name |->
                                 get(match, "dictionary_name", "")]
                ELSE IF get(match, "pattern", "") = "date"
                THEN pattern_info @@ [year |-> get(match, "year", "")]
                ELSE pattern_info]

\* The dict analyze returns.
analyze(password, zxcvbn_result, hashes) ==
    LET is_common == is_common_password(password, hashes)
        entropy == calculate_entropy(password)
    IN  [done |-> TRUE,
         password_length |-> Len(password),
         score |-> result_score(zxcvbn_result, is_common, entropy),
         is_common |-> is_common,
         hash |-> hash_password(password),
         feedback |-> generate_feedback(password, zxcvbn_result, is_common,
                                        entropy),
         entropy |-> entropy,
         crack_times |-> get(zxcvbn_result, "crack_times_display", <<>>),
         sequence_info |-> get(zxcvbn_result, "sequence", <<>>),
         pattern_matches |-> extract_pattern_info(zxcvbn_result)]

(***************************************************************************)
(* The values of the variables a specification leaves alone.               *)
(***************************************************************************)
NoCall ==
    [password |-> <<>>,
     zxcvbn_result |-> [score |-> 0, warning |-> "", suggestions |-> <<>>]]

NoLookup == [done |-> FALSE, password |-> <<>>, found |-> FALSE]

NoResult == [done |-> FALSE]

NoEstimate == [done |-> FALSE, p |-> 0, q |-> 0]

NoGen == [op |-> "none"]

AnalysisIdle ==
    /\ pc = "start"
    /\ sources = <<>>
    /\ common_password_hashes = {}
    /\ check_count = 0
    /\ lookup = NoLookup
    /\ analysis_count = 0
    /\ call = NoCall
    /\ result = NoResult

EntropyIdle == p = <<>> /\ q = <<>> /\ est = NoEstimate

GenIdle == eff_words = <<>> /\ wordlist_source = "none" /\ gen = NoGen

NoReport == [status |-> "none"]

NoPanel == [status |-> "none"]

BatchIdle ==
    /\ passwords = <<>>
    /\ zxcvbn_of = <<>>
    /\ results = <<>>
    /\ report = NoReport
    /\ panel = NoPanel

ThreadsIdle == threads = <<>>

(***************************************************************************)
(* The breach index: the dictionaries are loaded once, then queried.       *)
(***************************************************************************)
MaxSources == 2
MaxLines == 1
MaxChecks == 2

\* Raw lines of a dictionary file, without their line ends.
DictLines == {<<"a", "b">>, <<" ", "a", "b">>, <<"#", "a">>, <<>>,
              <<"A", BADBYTE, "1">>}

FileContents == UNION {[1..n -> DictLines] : n \in 0..MaxLines}

Files ==
    {[status |-> "missing", lines |-> <<>>],
     [status |-> "unreadable", lines |-> <<>>]}
        \cup {[status |-> "ok", lines |-> l] : l \in FileContents}

SourceLists == UNION {[1..n -> Files] : n \in 0..MaxSources}

\* The candidates looked up: every line as a string, and its trimmed form.
LookupCandidates ==
    {decode(l) : l \in DictLines} \cup {strip(decode(l)) : l \in DictLines}

InitIndex ==
    /\ pc = "start"
    /\ sources \in SourceLists
    /\ common_password_hashes = {}
    /\ check_count = 0
    /\ lookup = NoLookup
    /\ analysis_count = 0
    /\ call = NoCall
    /\ result = NoResult
    /\ EntropyIdle
    /\ BatchIdle
    /\ ThreadsIdle
    /\ GenIdle

\* main.check and main.batch: load_password_dictionaries, then
\* PasswordChecker(password_hashes) and PasswordAnalyzer().
LoadDictionaries ==
    /\ pc = "start"
    /\ common_password_hashes' = load_password_dictionaries(sources)
    /\ pc' = "ready"
    /\ UNCHANGED <<sources, check_count, lookup, analysis_count, call, result,
                   entropyVars, batchVars, threadVars, genVars>>

\* PasswordChecker.is_common_password(password)
IsCommonPassword(password) ==
    /\ pc = "ready"
    /\ check_count < MaxChecks
    /\ check_count' = check_count + 1
    /\ lookup' = [done |-> TRUE, password |-> password,
                  found |-> is_common_password(password, common_password_hashes)]
    /\ UNCHANGED <<pc, sources, common_password_hashes, analysis_count, call,
                   result, entropyVars, batchVars, threadVars, genVars>>

NextIndex ==
    \/ LoadDictionaries
    \/ \E password \in LookupCandidates : IsCommonPassword(password)

SpecIndex == InitIndex /\ [][NextIndex]_vars

\* The lines of the files that were read, as strings.
LoadedLines ==
    UNION {{decode(sources[i].lines[j]) : j \in 1..Len(sources[i].lines)} :
           i \in {k \in 1..Len(sources) : sources[k].status = "ok"}}

\* C2 as stated: every candidate that appears as a line of a loaded source
\* is found by is_common_password.
C2_EveryLineFound ==
    (lookup.done /\ lookup.password \in LoadedLines) => lookup.found

\* C2: no false negatives: after the index is built, is_common_password
\* returns true for every candidate that is a line of a loaded source, given
\* that the candidate is non-empty, has no leading or trailing whitespace and
\* does not start with '#'.
C2_NoFalseNegatives ==
    (lookup.done /\ lookup.password \in LoadedLines
        /\ lookup.password # <<>>
        /\ strip(lookup.password) = lookup.password
        /\ ~startswith_hash(lookup.password))
    => lookup.found

C2_Witness ==
    /\ lookup.done
    /\ lookup.password = <<"a", "b">>
    /\ lookup.password \in LoadedLines
    /\ Len(sources) = 2 /\ sources[1].status = "missing"
    /\ lookup.found

\* C12: whichever sources are missing or unreadable, and wherever they are
\* in the list, the set load_password_dictionaries returns is exactly the
\* digests of the trimmed, non-empty, non-comment lines of the sources that
\* were read.
C12_UnavailableSkipped ==
    pc = "ready" =>
        common_password_hashes =
            {hash_password(strip(l)) :
                l \in {x \in LoadedLines : line_retained(strip(x))}}

\* An unreadable source is followed by one whose line was loaded.
C12_Witness ==
    /\ pc = "ready"
    /\ Len(sources) = 2
    /\ sources[1].status = "unreadable"
    /\ sources[2].status = "ok"
    /\ sources[2].lines = << <<" ", "a", "b">> >>
    /\ common_password_hashes = {hash_password(<<"a", "b">>)}

\* A source that was read and has a byte that is not UTF-8 in some line.
undecodable(f) ==
    f.status = "ok" /\ \E i \in 1..Len(f.lines) : BADBYTE \in Range(f.lines[i])

\* C13: a source with bytes that cannot be decoded is skipped as a whole:
\* the set load_password_dictionaries returns holds the digests of the
\* retained lines of the readable, decodable sources and nothing else.
C13_UndecodableSkipped ==
    pc = "ready" =>
        common_password_hashes =
            UNION {file_hashes(sources[i].lines) :
                     i \in {k \in 1..Len(sources) :
                               sources[k].status = "ok"
                                   /\ ~undecodable(sources[k])}}

(***************************************************************************)
(* Analysis: one PasswordAnalyzer and one PasswordChecker over the index   *)
(* of at most one dictionary; the oracle (zxcvbn) answers anything.        *)
(***************************************************************************)
MaxAnalyses == 2
MaxRepeat == 4

\* The passwords analysed: a block of characters repeated 0..MaxRepeat times.
Blocks == {<<"a", "b">>, <<"A", "1">>, <<"a", "A", "1", "!">>, <<"!", "!">>,
           <<"a", "a", "a", "a">>, <<"1", "1", "1">>}

Passwords == {Repeat(b, k) : b \in Blocks, k \in 0..MaxRepeat}

ORACLE_WARNING == "This is a very common password"
SUGGESTION_1 == "Add another word or two. Uncommon words are better."
SUGGESTION_2 == "Avoid repeated words and characters"

\* What zxcvbn(password) may return: score, feedback.warning and
\* feedback.suggestions.
OracleResults ==
    [score : 0..4,
     warning : {"", ORACLE_WARNING},
     suggestions : {<<>>, <<SUGGESTION_1>>, <<SUGGESTION_1, SUGGESTION_2>>,
                    <<SUGGESTION_2, SUGGESTION_1>>}]

Init ==
    /\ pc = "start"
    /\ sources \in {s \in SourceLists : Len(s) <= 1}
    /\ common_password_hashes = {}
    /\ check_count = 0
    /\ lookup = NoLookup
    /\ analysis_count = 0
    /\ call \in [password : Passwords, zxcvbn_result : OracleResults]
    /\ result = NoResult
    /\ EntropyIdle
    /\ BatchIdle
    /\ ThreadsIdle
    /\ GenIdle

\* PasswordAnalyzer.analyze(password, checker) on the password in hand
Analyze ==
    /\ pc = "ready"
    /\ analysis_count < MaxAnalyses
    /\ analysis_count' = analysis_count + 1
    /\ check_count' = check_count + 1
    /\ lookup' = [done |-> TRUE, password |-> call.password,
                  found |-> is_common_password(call.password,
                                               common_password_hashes)]
    /\ result' = analyze(call.password, call.zxcvbn_result,
                         common_password_hashes)
    /\ UNCHANGED <<pc, sources, common_password_hashes, call, entropyVars,
                   batchVars, threadVars, genVars>>

Next == LoadDictionaries \/ Analyze

Spec == Init /\ [][Next]_vars

\* C1: whenever the candidate is found in the breach index, the score in
\* the result of analyze is 0.
C1_BreachForcesZero == (result.done /\ result.is_common) => result.score = 0

\* C3: for a candidate that is not in the breach index, the score in the
\* result of analyze is the oracle's score.
C3_ScoreIsOracleScore ==
    (result.done /\ ~result.is_common) => result.score = call.zxcvbn_result.score

\* A short, low-entropy candidate keeps the oracle's top score.
C3_Witness ==
    /\ result.done /\ ~result.is_common
    /\ result.score = 4
    /\ result.entropy < 28 * Scale
    /\ LOW_ENTROPY \in Range(result.feedback)

TypeNames == <<"lowercase letters", "uppercase letters", "numbers",
               "special characters">>

\* Every message that names one or more missing character types.
MissingMessages ==
    {missing_message(SelectSeq(TypeNames, LAMBDA t : t \in S)) :
        S \in (SUBSET Range(TypeNames)) \ {{}}}

\* The place of a feedback item in the order of assembly; 0 for an item
\* that is none of the six kinds.
Rank(item, zxcvbn_result) ==
    IF item = BREACH_WARNING THEN 1
    ELSE IF item # "" /\ item = zxcvbn_result.warning THEN 2
    ELSE IF item \in Range(zxcvbn_result.suggestions) THEN 3
    ELSE IF item \in {LENGTH_12, LENGTH_16} THEN 4
    ELSE IF item = LOW_ENTROPY THEN 5
    ELSE IF item \in MissingMessages THEN 6
    ELSE 0

\* C4: the feedback of analyze is ordered: breach warning, the oracle's
\* warning (only if non-empty), the oracle's suggestions in their given
\* order, the length recommendation, the low-entropy warning, the message on
\* missing character types; each item that is not the oracle's is there at
\* most once.
C4_FeedbackOrder ==
    result.done =>
        LET fb == result.feedback
            zx == call.zxcvbn_result
        IN  /\ \A i \in 1..Len(fb) : Rank(fb[i], zx) >= 1
            /\ \A i \in 1..Len(fb), j \in 1..Len(fb) :
                   i < j => Rank(fb[i], zx) <= Rank(fb[j], zx)
            /\ SelectSeq(fb, LAMBDA x : Rank(x, zx) = 3) = zx.suggestions
            /\ \A r \in {1, 2, 4, 5, 6} :
                   Cardinality({i \in 1..Len(fb) : Rank(fb[i], zx) = r}) <= 1

\* All six kinds at once, the two suggestions in the order given.
C4_Witness ==
    /\ result.done
    /\ Len(result.feedback) = 7
    /\ result.feedback[1] = BREACH_WARNING
    /\ result.feedback[2] = ORACLE_WARNING
    /\ result.feedback[3] = SUGGESTION_2
    /\ result.feedback[4] = SUGGESTION_1
    /\ result.feedback[5] = LENGTH_12
    /\ result.feedback[6] = LOW_ENTROPY
    /\ result.feedback[7] \in MissingMessages

(***************************************************************************)
(* core/generator.py                                                       *)
(***************************************************************************)
get_fallback_wordlist ==
    <<"abacus", "abdomen", "able", "abstract", "academy", "acrobat",
      "active", "actor", "adapt", "admiral", "adventure", "advice",
      "afraid", "agency", "agent", "airport", "album", "alcohol",
      "alert", "algebra", "alien", "along", "alpha", "already",
      "also", "altitude", "aluminum", "always", "amazed", "amber",
      "ambition", "amount", "amused", "anchor", "ancient", "angel",
      "anger", "angle", "animal", "ankle", "announce", "answer">>

\* A line of the wordlist file, trimmed and split at whitespace.
WordLines == {<<"11111", "abacus">>, <<"11112", "abdomen">>, <<"#", "note">>,
              <<"able">>, <<>>}

line_is_comment(fields) == fields # <<>> /\ Head(fields) = "#"

\* The second field of every line that is not blank, not a comment and has
\* two fields or more.
parse_wordlist(lines) ==
    LET kept == SelectSeq(lines,
                          LAMBDA parts : /\ parts # <<>>
                                         /\ ~line_is_comment(parts)
                                         /\ Len(parts) >= 2)
    IN  [i \in 1..Len(kept) |-> kept[i][2]]

\* The branch of _load_eff_wordlist that returns: the except clause of
\* FileNotFoundError, or the end of the file.
wordlist_source_of(file) ==
    IF file.status = "missing" THEN "fallback" ELSE "file"

\* PasswordGenerator._load_eff_wordlist: FileNotFoundError gives the fallback.
load_eff_wordlist(file) ==
    IF file.status = "missing" THEN get_fallback_wordlist
    ELSE parse_wordlist(file.lines)

\* str.capitalize() of the words a wordlist holds.
capitalize(w) ==
    CASE w = "abacus" -> "Abacus" []
         w = "abdomen" -> "Abdomen" []
         w = "able" -> "Able" []
         w = "abstract" -> "Abstract" []
         w = "academy" -> "Academy" []
         w = "acrobat" -> "Acrobat" []
         w = "active" -> "Active" []
         w = "actor" -> "Actor" []
         w = "adapt" -> "Adapt" []
         w = "admiral" -> "Admiral" []
         w = "adventure" -> "Adventure" []
         w = "advice" -> "Advice" []
         w = "afraid" -> "Afraid" []
         w = "agency" -> "Agency" []
         w = "agent" -> "Agent" []
         w = "airport" -> "Airport" []
         w = "album" -> "Album" []
         w = "alcohol" -> "Alcohol" []
         w = "alert" -> "Alert" []
         w = "algebra" -> "Algebra" []
         w = "alien" -> "Alien" []
         w = "along" -> "Along" []
         w = "alpha" -> "Alpha" []
         w = "already" -> "Already" []
         w = "also" -> "Also" []
         w = "altitude" -> "Altitude" []
         w = "aluminum" -> "Aluminum" []
         w = "always" -> "Always" []
         w = "amazed" -> "Amazed" []
         w = "amber" -> "Amber" []
         w = "ambition" -> "Ambition" []
         w = "amount" -> "Amount" []
         w = "amused" -> "Amused" []
         w = "anchor" -> "Anchor" []
         w = "ancient" -> "Ancient" []
         w = "angel" -> "Angel" []
         w = "anger" -> "Anger" []
         w = "angle" -> "Angle" []
         w = "animal" -> "Animal" []
         w = "ankle" -> "Ankle" []
         w = "announce" -> "Announce" []
         w = "answer" -> "Answer"

\* rng.choice(seq): the draw is taken among the first and the last element.
choice(seq) == {seq[1], seq[Len(seq)]}

\* rng.randint(a, b): the draw is taken among the two ends.
randint(a, b) == {a, b}

\* rng.shuffle(list): every permutation.
shuffle(list) ==
    {[i \in 1..Len(list) |-> list[perm[i]]] :
        perm \in Permutations(1..Len(list))}

MIN_WORDS == 3
MIXED_MIN_LENGTH == 4
ALNUM_MIN_LENGTH == 2

\* The outcome of a generator call: a returned value or a raised exception.
Returned(call_, value) == call_ @@ [status |-> "ok", value |-> value]
Raised(call_, exception) == call_ @@ [status |-> exception]

\* max(3, math.ceil(entropy / bits_per_word)), bits_per_word in 1/Scale.
words_needed(entropy, bits_per_word) ==
    Max(MIN_WORDS, ceil_div(entropy * Scale, bits_per_word))

\* PasswordGenerator.generate_passphrase: the set of its outcomes.
generate_passphrase(words, entropy, separator, cap, add_number) ==
    LET call_ == [op |-> "passphrase", entropy |-> entropy,
                  separator |-> separator, capitalize |-> cap,
                  add_number |-> add_number]
    IN  IF Len(words) = 0
        THEN {Raised(call_, "ValueError") @@ [words |-> <<>>]}
        ELSE IF log2(Len(words)) = 0
        THEN {Raised(call_, "ZeroDivisionError") @@ [words |-> <<>>]}
        ELSE LET n == words_needed(entropy, log2(Len(words)))
                 cased(ws) == IF cap THEN [i \in 1..n |-> capitalize(ws[i])]
                              ELSE ws
             IN  {Returned(call_, join(separator, cased(ws)) \o suffix)
                      @@ [words |-> ws] :
                    ws \in [1..n -> choice(words)],
                    suffix \in IF add_number
                               THEN {ToString(k) : k \in randint(10, 99)}
                               ELSE {""}}

\* A faulty variant: the fourth guaranteed character drawn from the charset.
mixed_guaranteed_any_fourth ==
    {<<a, b, c, d>> : a \in ascii_lowercase, b \in ascii_uppercase,
                      c \in digits,
                      d \in ascii_letters \cup digits \cup punctuation}

\* The four characters generate_mixed draws first, one of each type.
mixed_guaranteed ==
    {<<a, b, c, d>> : a \in ascii_lowercase, b \in ascii_uppercase,
                      c \in digits, d \in punctuation}

\* A faulty variant: the test lets the minimum length through as invalid.
mixed_length_invalid_off_by_one(length) == length <= MIXED_MIN_LENGTH

mixed_length_invalid(length) == length < MIXED_MIN_LENGTH

\* PasswordGenerator.generate_mixed: the set of its outcomes.
generate_mixed(length) ==
    LET call_ == [op |-> "mixed", length |-> length]
        charset == ascii_letters \cup digits \cup punctuation
    IN  IF mixed_length_invalid(length) THEN {Raised(call_, "ValueError")}
        ELSE UNION {{Returned(call_, s) : s \in shuffle(g \o fill)} :
                       g \in mixed_guaranteed,
                       fill \in [1..(length - 4) -> charset]}

\* A faulty variant: the second guaranteed character is a letter too.
alphanumeric_guaranteed_letters ==
    {<<a, b>> : a \in ascii_letters, b \in ascii_letters}

\* The two characters generate_alphanumeric draws first.
alphanumeric_guaranteed == {<<a, b>> : a \in ascii_letters, b \in digits}

alphanumeric_length_invalid(length) == length < ALNUM_MIN_LENGTH

\* PasswordGenerator.generate_alphanumeric: the set of its outcomes.
generate_alphanumeric(length) ==
    LET call_ == [op |-> "alphanumeric", length |-> length]
        charset == ascii_letters \cup digits
    IN  IF alphanumeric_length_invalid(length)
        THEN {Raised(call_, "ValueError")}
        ELSE UNION {{Returned(call_, s) : s \in shuffle(g \o fill)} :
                       g \in alphanumeric_guaranteed,
                       fill \in [1..(length - 2) -> charset]}

\* str(n) of a decimal digit, as a character.
digit_str(n) == ToString(n)

\* PasswordGenerator.generate_pin: the set of its outcomes; range(length)
\* is empty for a length below 1.
generate_pin(length) ==
    {Returned([op |-> "pin", length |-> length],
              [i \in 1..length |-> digit_str(d[i])]) :
        d \in [1..length -> randint(0, 9)]}

\* The keys of the generators dict of generate_batch.
generators == {"passphrase", "mixed", "alphanumeric", "pin"}

\* generators[style](**kwargs): the set of outcomes of one call.  A keyword
\* the generator does not have is a TypeError.
generate_one(words, style, kwargs) ==
    IF style = "passphrase"
    THEN IF DOMAIN kwargs = {"entropy"}
         THEN generate_passphrase(words, kwargs.entropy, "-", TRUE, TRUE)
         ELSE {Raised([op |-> style], "TypeError")}
    ELSE IF DOMAIN kwargs # {"length"}
    THEN {Raised([op |-> style], "TypeError")}
    ELSE IF style = "mixed" THEN generate_mixed(kwargs.length)
    ELSE IF style = "alphanumeric" THEN generate_alphanumeric(kwargs.length)
    ELSE generate_pin(kwargs.length)

\* A faulty variant: a style that is not known yields an empty list.
generate_batch_lenient(words, count, style, kwargs) ==
    LET call_ == [op |-> "batch", count |-> count, style |-> style,
                  kwargs |-> kwargs]
    IN  IF style \notin generators
        THEN {Returned(call_, <<>>) @@ [invoked |-> 0]}
        ELSE {Returned(call_, vs) @@ [invoked |-> Max(count, 0)] :
                vs \in [1..count ->
                          {o.value : o \in {x \in generate_one(words, style,
                                                                kwargs) :
                                               x.status = "ok"}}]}

\* PasswordGenerator.generate_batch: the set of its outcomes.  invoked is
\* the number of calls of the single-style generator that were made; the
\* first call that raises ends the list comprehension.
generate_batch(words, count, style, kwargs) ==
    LET call_ == [op |-> "batch", count |-> count, style |-> style,
                  kwargs |-> kwargs]
    IN  IF style \notin generators
        THEN {Raised(call_, "ValueError") @@ [invoked |-> 0]}
        ELSE LET outcomes == generate_one(words, style, kwargs)
                 ok == {o.value : o \in {x \in outcomes : x.status = "ok"}}
                 bad == {o.status : o \in {x \in outcomes : x.status # "ok"}}
             IN  {Returned(call_, vs) @@ [invoked |-> Max(count, 0)] :
                     vs \in [1..count -> ok]}
                 \cup {Raised(call_, e) @@ [invoked |-> k] :
                          e \in bad,
                          k \in {j \in 1..count : j = 1 \/ ok # {}}}

(***************************************************************************)
(* Passphrases: a generator is constructed over a wordlist file (or none)  *)
(* and generate_passphrase is called once.                                 *)
(***************************************************************************)
MaxWordLines == 3
MaxEntropyBits == 6

WordlistFiles ==
    {[status |-> "missing", lines |-> <<>>]}
        \cup {[status |-> "ok", lines |-> l] :
                l \in UNION {[1..n -> WordLines] : n \in 0..MaxWordLines}}

EntropyRequests == -1..MaxEntropyBits

InitPassphrase ==
    /\ \E file \in WordlistFiles :
           /\ eff_words = load_eff_wordlist(file)
           /\ wordlist_source = wordlist_source_of(file)
    /\ gen = NoGen
    /\ AnalysisIdle
    /\ EntropyIdle
    /\ BatchIdle
    /\ ThreadsIdle

\* PasswordGenerator.generate_passphrase(entropy, separator, capitalize,
\* add_number)
GeneratePassphrase(entropy, separator, cap, add_number) ==
    /\ gen.op = "none"
    /\ gen' \in generate_passphrase(eff_words, entropy, separator, cap,
                                    add_number)
    /\ UNCHANGED <<eff_words, wordlist_source, analysisVars, entropyVars,
                   batchVars, threadVars>>

NextPassphrase ==
    \E entropy \in EntropyRequests, separator \in {"-", " "},
       cap \in BOOLEAN, add_number \in BOOLEAN :
        GeneratePassphrase(entropy, separator, cap, add_number)

SpecPassphrase == InitPassphrase /\ [][NextPassphrase]_vars

\* n words of a list of the given size are the fewest, and not fewer than
\* three, whose keyspace size^n reaches 2^entropy.
EnoughWords(n, size, entropy) ==
    /\ n >= MIN_WORDS
    /\ Pow(size, n) >= Pow(2, entropy)
    /\ n > MIN_WORDS => Pow(size, n - 1) < Pow(2, entropy)

\* C8: for every wordlist the generator can hold and every entropy_bits,
\* generate_passphrase does not fail and draws max(3, ceil(entropy_bits /
\* log2(size))) words, so that size^words >= 2^entropy_bits.
C8_PassphraseWords ==
    gen.op = "passphrase" =>
        /\ gen.status = "ok"
        /\ EnoughWords(Len(gen.words), Len(eff_words), gen.entropy)

\* C8 for the wordlists of two words or more.
C8_PassphraseWordsFromTwo ==
    (gen.op = "passphrase" /\ Len(eff_words) >= 2) =>
        /\ gen.status = "ok"
        /\ EnoughWords(Len(gen.words), Len(eff_words), gen.entropy)

(***************************************************************************)
(* Character passwords: a generator constructed without a wordlist file,   *)
(* and one call of generate_mixed, generate_alphanumeric or generate_pin.  *)
(***************************************************************************)
MaxGenLen == 5

LengthRequests == -1..MaxGenLen

InitChars ==
    /\ eff_words = load_eff_wordlist([status |-> "missing", lines |-> <<>>])
    /\ wordlist_source =
           wordlist_source_of([status |-> "missing", lines |-> <<>>])
    /\ gen = NoGen
    /\ AnalysisIdle
    /\ EntropyIdle
    /\ BatchIdle
    /\ ThreadsIdle

GenerateMixed(length) ==
    /\ gen.op = "none"
    /\ gen' \in generate_mixed(length)
    /\ UNCHANGED <<eff_words, wordlist_source, analysisVars, entropyVars,
                   batchVars, threadVars>>

GenerateAlphanumeric(length) ==
    /\ gen.op = "none"
    /\ gen' \in generate_alphanumeric(length)
    /\ UNCHANGED <<eff_words, wordlist_source, analysisVars, entropyVars,
                   batchVars, threadVars>>

GeneratePin(length) ==
    /\ gen.op = "none"
    /\ gen' \in generate_pin(length)
    /\ UNCHANGED <<eff_words, wordlist_source, analysisVars, entropyVars,
                   batchVars, threadVars>>

NextChars ==
    \E length \in LengthRequests :
        \/ GenerateMixed(length)
        \/ GenerateAlphanumeric(length)
        \/ GeneratePin(length)

SpecChars == InitChars /\ [][NextChars]_vars

\* C5: for a length of 4 or more, the string generate_mixed returns holds a
\* lowercase letter, an uppercase letter, a digit and a punctuation character.
C5_MixedHasEveryType ==
    (gen.op = "mixed" /\ gen.length >= MIXED_MIN_LENGTH) =>
        /\ gen.status = "ok"
        /\ Range(gen.value) \cap ascii_lowercase # {}
        /\ Range(gen.value) \cap ascii_uppercase # {}
        /\ Range(gen.value) \cap digits # {}
        /\ Range(gen.value) \cap punctuation # {}

\* A password longer than the four guaranteed characters whose punctuation
\* character was shuffled to the front.
C5_Witness ==
    /\ gen.op = "mixed" /\ gen.status = "ok"
    /\ gen.length > MIXED_MIN_LENGTH
    /\ Len(gen.value) = gen.length
    /\ gen.value[1] \in punctuation
    /\ gen.value[gen.length] \in ascii_lowercase

\* C6: for a length of 2 or more, the string generate_alphanumeric returns
\* holds a letter and a digit, and only letters and digits.
C6_AlphanumericHasBoth ==
    (gen.op = "alphanumeric" /\ gen.length >= ALNUM_MIN_LENGTH) =>
        /\ gen.status = "ok"
        /\ Range(gen.value) \cap ascii_letters # {}
        /\ Range(gen.value) \cap digits # {}
        /\ Range(gen.value) \subseteq ascii_letters \cup digits

\* The digit was shuffled to the front and is the only one.
C6_Witness ==
    /\ gen.op = "alphanumeric" /\ gen.status = "ok"
    /\ gen.length > ALNUM_MIN_LENGTH
    /\ gen.value[1] \in digits
    /\ \A i \in 2..Len(gen.value) : gen.value[i] \in ascii_letters

\* C7: generate_mixed raises the invalid-length error exactly for a length
\* below 4 and generate_alphanumeric exactly for a length below 2; a call that
\* raises returns no password, and any other returns one of that length.
C7_MinimumLength ==
    /\ gen.op = "mixed" =>
           /\ gen.status = "ValueError" <=> gen.length < 4
           /\ gen.status = "ok" <=> gen.length >= 4
    /\ gen.op = "alphanumeric" =>
           /\ gen.status = "ValueError" <=> gen.length < 2
           /\ gen.status = "ok" <=> gen.length >= 2
    /\ gen.op \in {"mixed", "alphanumeric"} =>
           /\ gen.status = "ValueError" => "value" \notin DOMAIN gen
           /\ gen.status = "ok" => Len(gen.value) = gen.length

\* generate_mixed(3) has raised.
C7_Witness ==
    /\ gen.op = "mixed" /\ gen.length = 3
    /\ gen.status = "ValueError"

(***************************************************************************)
(* Batches: a generator constructed without a wordlist file, and one call  *)
(* of generate_batch.                                                      *)
(***************************************************************************)
MaxBatchCount == 1
MaxBatchLen == 3

CountRequests == -1..MaxBatchCount

\* The style names asked for: the four known ones and others.
StyleRequests == generators \cup {"hex", "", "Passphrase"}

\* The keyword arguments passed on to the generator.
KwargsRequests ==
    {[length |-> l] : l \in 1..MaxBatchLen} \cup {[entropy |-> 1]}

GenerateBatch(count, style, kwargs) ==
    /\ gen.op = "none"
    /\ gen' \in generate_batch(eff_words, count, style, kwargs)
    /\ UNCHANGED <<eff_words, wordlist_source, analysisVars, entropyVars,
                   batchVars, threadVars>>

NextBatchGen ==
    \E count \in CountRequests, style \in StyleRequests,
       kwargs \in KwargsRequests :
        GenerateBatch(count, style, kwargs)

SpecBatchGen == InitChars /\ [][NextBatchGen]_vars

\* C15: for every count and every style other than passphrase, mixed,
\* alphanumeric and pin, generate_batch raises the unknown-style ValueError
\* with no single-style generator called and no list returned.
C15_UnknownStyleFails ==
    (gen.op = "batch"
        /\ gen.style \notin {"passphrase", "mixed", "alphanumeric", "pin"})
    => /\ gen.status = "ValueError"
       /\ gen.invoked = 0
       /\ "value" \notin DOMAIN gen

\* generate_batch(1, 'hex', length=2) has raised.
C15_Witness ==
    /\ gen.op = "batch" /\ gen.style = "hex" /\ gen.count = 1
    /\ gen.kwargs = [length |-> 2]
    /\ gen.status = "ValueError" /\ gen.invoked = 0

(***************************************************************************)
(* Entropy of two candidates.  calculate_entropy scans a candidate with    *)
(* any(), so the order of its characters is immaterial: the candidates are *)
(* the strings of at most MaxLen characters in alphabet order.             *)
(***************************************************************************)
MaxLen == 3

EntropyAlphabet == <<"a", "A", "1", "!", " ", EACUTE, CTRL>>

EntropyCandidates ==
    UNION {{[i \in 1..n |-> EntropyAlphabet[f[i]]] :
              f \in {g \in [1..n -> 1..Len(EntropyAlphabet)] :
                        \A i \in 1..n, j \in 1..n : i <= j => g[i] <= g[j]}} :
           n \in 0..MaxLen}

InitEntropy ==
    /\ p \in EntropyCandidates
    /\ q \in EntropyCandidates
    /\ est = NoEstimate
    /\ AnalysisIdle
    /\ GenIdle
    /\ BatchIdle
    /\ ThreadsIdle

Estimate ==
    /\ ~est.done
    /\ est' = [done |-> TRUE, p |-> calculate_entropy(p),
               q |-> calculate_entropy(q)]
    /\ UNCHANGED <<p, q, analysisVars, genVars, batchVars, threadVars>>

NextEntropy == Estimate

SpecEntropy == InitEntropy /\ [][NextEntropy]_vars

\* C9: for non-empty candidates p and q with the same character classes
\* present, len(p) <= len(q) implies calculate_entropy(p) <= calculate_entropy(q).
C9_LengthMonotone ==
    (est.done /\ p # <<>> /\ q # <<>> /\ classes(p) = classes(q)
        /\ Len(p) <= Len(q))
    => est.p <= est.q

C9_Witness ==
    /\ est.done
    /\ classes(p) = classes(q) /\ Cardinality(classes(p)) >= 2
    /\ Len(p) < Len(q)
    /\ est.p < est.q

\* C10: for non-empty candidates p and q of the same length, where the classes
\* of q are those of p and at least one more, calculate_entropy(q) is
\* strictly greater than calculate_entropy(p).
C10_NewClassStrict ==
    (est.done /\ p # <<>> /\ q # <<>> /\ Len(p) = Len(q)
        /\ classes(p) \subseteq classes(q) /\ classes(p) # classes(q))
    => est.q > est.p

\* C10 for a candidate p that has at least one class present.
C10_NewClassStrictClassed ==
    (est.done /\ p # <<>> /\ q # <<>> /\ Len(p) = Len(q)
        /\ classes(p) # {}
        /\ classes(p) \subseteq classes(q) /\ classes(p) # classes(q))
    => est.q > est.p

\* C11: calculate_entropy reaches a charset_size of 0 only for the empty
\* candidate: every non-empty candidate has at least one of the six
\* character classes present.
C11_NonEmptyHasClass ==
    est.done =>
        /\ (p # <<>> => (charset_size(p) > 0 /\ classes(p) # {}))
        /\ (q # <<>> => (charset_size(q) > 0 /\ classes(q) # {}))

(***************************************************************************)
(* utils/report_generator.py and utils/display.py                          *)
(***************************************************************************)
RECURSIVE sum(_)
sum(items) == IF items = <<>> THEN 0 ELSE Head(items) + sum(Tail(items))

\* A float in 1/Scale, rounded to the given number of decimals and held as
\* an integer count of 10^-decimals: round(x, n) and f"{x:.nf}".
round_to(x, decimals) ==
    (2 * x * Pow(10, decimals) + Scale) \div (2 * Scale)

\* datetime.now().isoformat()
TIMESTAMP == "2026-01-01T00:00:00"

REPORT_VERSION == "2.0"
HIDDEN == "[hidden]"

\* ReportGenerator._calculate_summary, without its timestamp.
calculate_summary(results_) ==
    IF results_ = <<>> THEN <<>>
    ELSE LET total == Len(results_)
             n == 1..total
             score_counts ==
                 [sc \in 0..4 |->
                     Cardinality({i \in n : get(results_[i], "score", 0) = sc})]
             common_count ==
                 Cardinality({i \in n : get(results_[i], "is_common", FALSE)})
             avg_length ==
                 (sum([i \in n |-> get(results_[i], "password_length", 0)])
                     * Scale) \div total
             avg_entropy ==
                 sum([i \in n |-> get(results_[i], "entropy", 0)]) \div total
             avg_score ==
                 (sum([i \in n |-> get(results_[i], "score", 0)]) * Scale)
                     \div total
         IN  [total_analyzed |-> total,
              common_passwords |-> common_count,
              common_percentage |-> ((common_count * Scale) \div total) * 100,
              average_length |-> round_to(avg_length, 1),
              average_entropy |-> round_to(avg_entropy, 1),
              average_score |-> round_to(avg_score, 2),
              score_distribution |-> score_counts,
              weak_passwords |-> score_counts[0] + score_counts[1]]

\* The row _export_csv writes for one result.
csv_row(result_) ==
    [password |-> get(result_, "password", HIDDEN),
     password_length |-> get(result_, "password_length", 0),
     score |-> get(result_, "score", 0),
     is_common |-> get(result_, "is_common", FALSE),
     entropy |-> round_to(get(result_, "entropy", 0), 1),
     hash |-> get(result_, "hash", ""),
     timestamp |-> get(result_, "timestamp", "")]

\* result['timestamp'] = ...; result['report_version'] = '2.0'
stamped(result_) ==
    [timestamp |-> TIMESTAMP, report_version |-> REPORT_VERSION] @@ result_

\* ReportGenerator.export_batch: the results with their metadata, and what
\* is written to the file of the given suffix.
export_batch(results_, suffix) ==
    LET rs == [i \in 1..Len(results_) |-> stamped(results_[i])]
    IN  [results |-> rs,
         report |->
             IF suffix = ".json"
             THEN [status |-> "ok", suffix |-> suffix,
                   summary |-> calculate_summary(rs), results |-> rs]
             ELSE IF suffix = ".csv"
             THEN [status |-> "ok", suffix |-> suffix,
                   rows |-> [i \in 1..Len(rs) |-> csv_row(rs[i])]]
             ELSE [status |-> "ValueError", suffix |-> suffix]]

\* DisplayManager.show_batch_summary: the figures of the panel, or the
\* exception of the division by total.
show_batch_summary(results_, total) ==
    LET n == 1..Len(results_)
        weak_count == Cardinality({i \in n : results_[i].score < 3})
        common_count == Cardinality({i \in n : results_[i].is_common})
        avg_score ==
            IF results_ # <<>>
            THEN (sum([i \in n |-> results_[i].score]) * Scale)
                     \div Len(results_)
            ELSE 0
    IN  IF total = 0 THEN [status |-> "ZeroDivisionError"]
        ELSE [status |-> "ok",
              total |-> total,
              avg_score |-> round_to(avg_score, 1),
              weak_count |-> weak_count,
              weak_percentage |->
                  round_to(((weak_count * Scale) \div total) * 100, 1),
              common_count |-> common_count,
              common_percentage |->
                  round_to(((common_count * Scale) \div total) * 100, 1)]

(***************************************************************************)
(* The batch command: the dictionaries are loaded, every password of the   *)
(* input file is analysed in turn, the results are exported and the        *)
(* summary is shown.                                                       *)
(***************************************************************************)
MaxBatch == 2

\* The lines of the input file, trimmed; blank lines are dropped on reading.
BatchPasswords == {<<"a", "b">>, <<"A", "1", "!">>}

BatchInputs == UNION {[1..n -> BatchPasswords] : n \in 0..MaxBatch}

\* zxcvbn(password)['sequence']: matches whose tokens make up the password.
zxcvbn_sequences(password) ==
    {<< [pattern |-> "bruteforce", token |-> password,
         i |-> 0, j |-> Len(password) - 1] >>,
     << [pattern |-> "dictionary", token |-> SubSeq(password, 1, 1),
         i |-> 0, j |-> 0, dictionary_name |-> "english_wikipedia"],
        [pattern |-> "bruteforce",
         token |-> SubSeq(password, 2, Len(password)),
         i |-> 1, j |-> Len(password) - 1] >>}

\* What zxcvbn may return for a password of the batch.
zxcvbn(password) ==
    {[score |-> sc, warning |-> "", suggestions |-> <<>>, sequence |-> sq] :
        sc \in {1, 4}, sq \in zxcvbn_sequences(password)}

OutputFiles == {".csv", ".json", ".txt"}

InitBatch ==
    /\ pc = "start"
    /\ sources \in {s \in SourceLists : Len(s) <= 1}
    /\ common_password_hashes = {}
    /\ check_count = 0
    /\ lookup = NoLookup
    /\ analysis_count = 0
    /\ call = NoCall
    /\ result = NoResult
    /\ passwords \in BatchInputs
    /\ zxcvbn_of \in {f \in [BatchPasswords ->
                                UNION {zxcvbn(pw) : pw \in BatchPasswords}] :
                          \A pw \in BatchPasswords : f[pw] \in zxcvbn(pw)}
    /\ results = <<>>
    /\ report = NoReport
    /\ panel = NoPanel
    /\ EntropyIdle
    /\ GenIdle
    /\ ThreadsIdle

\* One turn of the loop of batch: analyzer.analyze(pwd, checker),
\* result['password'] = pwd, results.append(result).
BatchAnalyze ==
    /\ pc = "ready"
    /\ Len(results) < Len(passwords)
    /\ LET pwd == passwords[Len(results) + 1]
           analysed == analyze(pwd, zxcvbn_of[pwd], common_password_hashes)
       IN  /\ analysis_count' = analysis_count + 1
           /\ check_count' = check_count + 1
           /\ lookup' = [done |-> TRUE, password |-> pwd,
                         found |-> is_common_password(pwd,
                                                      common_password_hashes)]
           /\ common_password_hashes' =
                  index_after_check(pwd, common_password_hashes)
           /\ call' = [password |-> pwd, zxcvbn_result |-> zxcvbn_of[pwd]]
           /\ result' = analysed
           /\ results' = Append(results, [password |-> pwd] @@ analysed)
    /\ UNCHANGED <<pc, sources, passwords, zxcvbn_of, report, panel,
                   entropyVars, genVars, threadVars>>

\* report_gen.export_batch(results, output_file)
ExportBatch(output_file) ==
    /\ pc = "ready"
    /\ Len(results) = Len(passwords)
    /\ report.status = "none"
    /\ results' = export_batch(results, output_file).results
    /\ report' = export_batch(results, output_file).report
    /\ UNCHANGED <<analysisVars, passwords, zxcvbn_of, panel, entropyVars,
                   genVars, threadVars>>

\* display.show_batch_summary(results, len(passwords), output_file)
ShowBatchSummary ==
    /\ report.status = "ok"
    /\ panel.status = "none"
    /\ panel' = show_batch_summary(results, Len(passwords))
    /\ UNCHANGED <<analysisVars, passwords, zxcvbn_of, results, report,
                   entropyVars, genVars, threadVars>>

NextBatch ==
    \/ LoadDictionaries
    \/ BatchAnalyze
    \/ \E output_file \in OutputFiles : ExportBatch(output_file)
    \/ ShowBatchSummary

SpecBatch == InitBatch /\ [][NextBatch]_vars

\* C14: the batch over an empty list of passwords does not raise: its
\* results stay empty, the summary of a JSON report is empty and the summary
\* shown is computed, with zero counts, without a division by zero.
C14_EmptyBatchCompletes ==
    passwords = <<>> =>
        /\ results = <<>>
        /\ (report.status = "ok" /\ report.suffix = ".json")
               => report.summary = <<>>
        /\ panel.status # "ZeroDivisionError"
        /\ panel.status = "ok" => (panel.weak_count = 0 /\ panel.avg_score = 0)

\* The record holds the password in whole: as its 'password' entry, or as
\* the token of a match of its sequence or of its pattern list.
exposes(record, password) ==
    \/ "password" \in DOMAIN record /\ record.password = password
    \/ \E key \in {"sequence_info", "pattern_matches"} \cap DOMAIN record :
           \E k \in 1..Len(record[key]) : record[key][k].token = password

\* C16: the result analyze returns, and every row or object export_batch
\* writes, carries the digest of the analysed password and never the
\* password itself.
C16_OnlyDigestExposed ==
    /\ result.done =>
           /\ result.hash = hash_password(call.password)
           /\ ~exposes(result, call.password)
    /\ report.status = "ok" =>
           \A i \in 1..Len(passwords) :
               /\ report.suffix = ".csv" =>
                      /\ report.rows[i].hash = hash_password(passwords[i])
                      /\ ~exposes(report.rows[i], passwords[i])
               /\ report.suffix = ".json" =>
                      /\ report.results[i].hash = hash_password(passwords[i])
                      /\ ~exposes(report.results[i], passwords[i])

(***************************************************************************)
(* Concurrent callers of analyze on one PasswordAnalyzer and one           *)
(* PasswordChecker.  `self._analysis_count += 1` and                       *)
(* `self._check_count += 1` are each a load of the attribute followed by a *)
(* store of the sum, with no lock held; another caller may run in between. *)
(***************************************************************************)
MaxThreads == 3

ThreadCounts == 1..MaxThreads

\* PasswordAnalyzer.get_stats
analyzer_get_stats(count) == [total_analyses |-> count]

\* PasswordChecker.get_stats
checker_get_stats(count, hashes) ==
    [total_checks |-> count, database_size |-> Cardinality(hashes)]

InitThreads ==
    /\ pc = "ready"
    /\ sources = <<>>
    /\ common_password_hashes = {}
    /\ check_count = 0
    /\ lookup = NoLookup
    /\ analysis_count = 0
    /\ call = NoCall
    /\ result = NoResult
    /\ \E n \in ThreadCounts :
           threads = [t \in 1..n |-> [at |-> "called", loaded |-> 0]]
    /\ EntropyIdle
    /\ GenIdle
    /\ BatchIdle

\* analyze, line 12: the load of self._analysis_count
LoadAnalysisCount(t) ==
    /\ threads[t].at = "called"
    /\ threads' = [threads EXCEPT ![t] = [at |-> "analysis_loaded",
                                          loaded |-> analysis_count]]
    /\ UNCHANGED <<analysisVars, entropyVars, genVars, batchVars>>

\* analyze, line 12: the store of the sum
StoreAnalysisCount(t) ==
    /\ threads[t].at = "analysis_loaded"
    /\ analysis_count' = threads[t].loaded + 1
    /\ threads' = [threads EXCEPT ![t] = [at |-> "checking", loaded |-> 0]]
    /\ UNCHANGED <<pc, sources, common_password_hashes, check_count, lookup,
                   call, result, entropyVars, genVars, batchVars>>

\* is_common_password, line 12: the load of self._check_count
LoadCheckCount(t) ==
    /\ threads[t].at = "checking"
    /\ threads' = [threads EXCEPT ![t] = [at |-> "check_loaded",
                                          loaded |-> check_count]]
    /\ UNCHANGED <<analysisVars, entropyVars, genVars, batchVars>>

\* is_common_password, line 12: the store of the sum; the rest of the two
\* methods reads the index and returns.
StoreCheckCount(t) ==
    /\ threads[t].at = "check_loaded"
    /\ check_count' = threads[t].loaded + 1
    /\ threads' = [threads EXCEPT ![t] = [at |-> "returned", loaded |-> 0]]
    /\ UNCHANGED <<pc, sources, common_password_hashes, analysis_count,
                   lookup, call, result, entropyVars, genVars, batchVars>>

NextThreads ==
    \E t \in DOMAIN threads :
        \/ LoadAnalysisCount(t)
        \/ StoreAnalysisCount(t)
        \/ LoadCheckCount(t)
        \/ StoreCheckCount(t)

SpecThreads == InitThreads /\ [][NextThreads]_vars

\* C17: once the N concurrent calls of analyze have returned, get_stats of
\* the analyzer reports total_analyses = N and get_stats of the checker
\* total_checks = N.
C17_NoLostIncrement ==
    (\A t \in DOMAIN threads : threads[t].at = "returned") =>
        /\ analyzer_get_stats(analysis_count).total_analyses = Len(threads)
        /\ checker_get_stats(check_count, common_password_hashes).total_checks
               = Len(threads)

(***************************************************************************)
(* Wordlist metadata: a generator is constructed over a wordlist file (or  *)
(* none) and get_wordlist_info is called.                                  *)
(***************************************************************************)
LARGE_WORDLIST == 1000

MaxMargin == 40

\* A wordlist file of n numbered words.
SizedWordlistFile(n) ==
    [status |-> "ok", lines |-> [i \in 1..n |-> <<"11111", "abacus">>]]

\* The wordlist files the constructor may find: none, the short ones, and
\* the ones of about a thousand words.
InfoWordlistFiles ==
    WordlistFiles
        \cup {SizedWordlistFile(n) :
                 n \in (LARGE_WORDLIST - MaxMargin)..(LARGE_WORDLIST + MaxMargin)}

\* PasswordGenerator.get_wordlist_info; math.log2(0) is a ValueError.
get_wordlist_info(words) ==
    LET call_ == [op |-> "wordlist_info"]
    IN  IF Len(words) = 0 THEN Raised(call_, "ValueError")
        ELSE Returned(call_,
                      [size |-> Len(words),
                       bits_per_word |-> log2(Len(words)),
                       source |-> IF Len(words) > LARGE_WORDLIST
                                  THEN "EFF Large Wordlist"
                                  ELSE "Fallback"])

InitWordlist ==
    /\ \E file \in InfoWordlistFiles :
           /\ eff_words = load_eff_wordlist(file)
           /\ wordlist_source = wordlist_source_of(file)
    /\ gen = NoGen
    /\ AnalysisIdle
    /\ EntropyIdle
    /\ BatchIdle
    /\ ThreadsIdle

GetWordlistInfo ==
    /\ gen.op = "none"
    /\ gen' = get_wordlist_info(eff_words)
    /\ UNCHANGED <<eff_words, wordlist_source, analysisVars, entropyVars,
                   batchVars, threadVars>>

NextWordlist == GetWordlistInfo

SpecWordlist == InitWordlist /\ [][NextWordlist]_vars

\* C18: however the generator was constructed, get_wordlist_info returns,
\* its source is 'Fallback' exactly when the embedded fallback list is the
\* one in use, and its size is the number of words held.
C18_FallbackObservable ==
    gen.op = "wordlist_info" =>
        /\ gen.status = "ok"
        /\ gen.value.source = "Fallback" <=> wordlist_source = "fallback"
        /\ gen.value.size = Len(eff_words)

\* The entries of a result that C19 is about.
analysis_of(result_) ==
    [score |-> result_.score, is_common |-> result_.is_common,
     hash |-> result_.hash, entropy |-> result_.entropy,
     feedback |-> result_.feedback]

\* C19: no call of analyze or is_common_password changes the index, which
\* stays the set the dictionaries gave; and wherever a password stands in
\* the batch, its score, is_common, hash, entropy and feedback are those of
\* analysing it alone against that index.
C19_OrderIndependentMap ==
    pc = "ready" =>
        /\ common_password_hashes = load_password_dictionaries(sources)
        /\ \A i \in 1..Len(results) :
               analysis_of(results[i])
                   = analysis_of(analyze(passwords[i], zxcvbn_of[passwords[i]],
                                         load_password_dictionaries(sources)))

\* The same password was analysed twice against an index that lacks it and
\* holds the digest of another.
C19_Witness ==
    /\ Len(passwords) = 2 /\ Len(results) = 2
    /\ passwords[1] = <<"A", "1", "!">> /\ passwords[2] = <<"A", "1", "!">>
    /\ common_password_hashes = {hash_password(<<"a", "b">>)}
    /\ ~results[1].is_common /\ ~results[2].is_common
    /\ analysis_of(results[1]) = analysis_of(results[2])
    /\ analysis_count = 2

====
